---- MODULE Spec2Model ----
(***************************************************************************)
(* A model of sandboxzilla's communication harness:                        *)
(*   - utils/event_handler.py  EventHandler (the event bus),               *)
(*   - comm/base_dev_helper.py BaseCommDeviceHelper (the device session),   *)
(*   - comm/ip_helper.py       IPHelper (the framed stream endpoint).      *)
(* The specifications of the module: SpecBus (one EventHandler used from   *)
(* several threads), SpecFrame / SpecHello (the framed reader and the      *)
(* distributor over a peer byte stream), Spec / SpecIn (the session        *)
(* lifecycle, outbound and inbound), SpecTx (the writer of an open         *)
(* session), SpecShutdown (close() with messages already dequeued) and     *)
(* SpecAnnounce (subscribe, unsubscribe, start and stop).                  *)
(***************************************************************************)
EXTENDS Integers, Sequences, FiniteSets, TLC

(***************************************************************************)
(* Bounds of the model.                                                    *)
(***************************************************************************)
MaxPosts == 2

None == "None"

(***************************************************************************)
(* EventHandler (utils/event_handler.py).                                  *)
(* cb_routines is an insertion-ordered dict: a sequence of entries with    *)
(* pairwise distinct names.  Packets are dict objects; heap maps an object *)
(* identity to the dict's contents so that aliasing is visible.            *)
(***************************************************************************)
VARIABLES
  packet,        \* EventHandler.packet, the dict given at construction
  cb_routines,   \* EventHandler.cb_routines
  heap,          \* the packet dicts built by the latest post, by object identity
  posting,       \* the post in flight: its packet object, snapshot and position
  deliveries,    \* the callback invocations of the latest post
  firstReg,      \* the registrations made while their name was absent, in call order
  busErr,        \* the exception the latest post raised to its caller
  nPosts         \* number of post calls so far

busVars == <<packet, cb_routines, heap, posting, deliveries, firstReg, busErr, nPosts>>

Names == {"n1", "n2"}
Cookies == {"k1", "k2"}
\* What a subscriber's callback does with the packet it is handed: read it,
\* write into it, or raise.  Every callback may keep the reference it got.
Callbacks == {"log", "mutate", "raise"}
\* The (callback, cookie) pairs callers register.
Registrations == {<<"log", "k1">>, <<"log", "k2">>, <<"mutate", "k2">>, <<"raise", "k1">>}
Payloads == {"p1"}
\* The keyword arguments a caller passes to post besides the payload.
NoKwargs == "nokw"
KwargsSet == {NoKwargs, "src"}

BusSrc == "IPHelper"
BusEvent == "IPHelperInEvent"

Range(s) == {s[i] : i \in DOMAIN s}

RoutineNames(routines) == {routines[i].name : i \in DOMAIN routines}

Lookup(routines, name) ==
  routines[CHOOSE i \in DOMAIN routines : routines[i].name = name]

\* EventHandler.__init__: the stored packet, with the minimum keys defaulted.
InitPacket(event, src) ==
  [event |-> event, src |-> src, dest |-> None, payload |-> None, cookie |-> None]

\* A plausible slip: the filter is inverted and keeps the named entry only.
unsubscribe_inverted(routines, name) ==
  IF name \in RoutineNames(routines)
    THEN SelectSeq(routines, LAMBDA r : r.name = name)
    ELSE routines

\* A plausible slip: the registration is stored whether or not the name is
\* present (a dict assignment keeps the key's position).
subscribe_overwrite(routines, name, on_event, cookie) ==
  IF name \in RoutineNames(routines)
    THEN [i \in DOMAIN routines |->
            IF routines[i].name = name
              THEN [name |-> name, on_event |-> on_event, cookie |-> cookie]
              ELSE routines[i]]
    ELSE Append(routines, [name |-> name, on_event |-> on_event, cookie |-> cookie])

\* EventHandler.subscribe.
subscribe(routines, name, on_event, cookie) ==
  IF name \notin RoutineNames(routines)
    THEN Append(routines, [name |-> name, on_event |-> on_event, cookie |-> cookie])
    ELSE routines

\* EventHandler.unsubscribe.
unsubscribe(routines, name) ==
  IF name \in RoutineNames(routines)
    THEN SelectSeq(routines, LAMBDA r : r.name # name)
    ELSE routines

\* post, lines 68-71: the copy of the stored packet with the keyword
\* arguments and the payload written into it.
BuildPacket(stored, payload, kw) ==
  LET withKw == IF kw = "src" THEN [stored EXCEPT !.src = "kwsrc"] ELSE stored
  IN [withKw EXCEPT !.payload = payload]

\* post, lines 73-75: the object handed to the subscriber at position idx of
\* the snapshot.  The one dict built by the post is handed to every subscriber.
PacketFor(post) == post.obj

\* The effect of a subscriber's callback on the dict it is handed.
RunCallback(on_event, contents) ==
  IF on_event = "mutate"
    THEN [contents EXCEPT !.src = "mutated", !.dest = "mutated"]
    ELSE contents

\* No registration on record for a name.
NoReg == [name |-> None, on_event |-> None, cookie |-> None, dup |-> FALSE]

\* The record of first registrations without its bookkeeping flag.
Registered(first) ==
  [i \in DOMAIN first |->
     [name |-> first[i].name, on_event |-> first[i].on_event, cookie |-> first[i].cookie]]

\* No post in flight.
NoPost == [active |-> FALSE, obj |-> 0, snap |-> <<>>, idx |-> 0,
           built |-> InitPacket(None, None), first |-> <<>>]

BusInit ==
  /\ packet = InitPacket(BusEvent, BusSrc)
  /\ cb_routines = <<>>
  /\ heap = <<>>
  /\ posting = NoPost
  /\ deliveries = <<>>
  /\ firstReg = <<>>
  /\ busErr = None
  /\ nPosts = 0

(***************************************************************************)
(* BaseCommDeviceHelper / IPHelper (comm/base_dev_helper.py, ip_helper.py). *)
(* Bytes are numbers, text is a sequence of one-character strings; decode  *)
(* and encode convert between the two.  The queue sentinel None is the     *)
(* one-element sequence Sentinel, which no text equals.                    *)
(***************************************************************************)
VARIABLES
  continue_thread, \* BaseCommDeviceHelper.continue_thread, the running flag
  sock,            \* IPHelper._socket: "unset", "open", or "closed"
  inT,             \* reader thread: "new", "loop", "recv", "done", "raised"
  distT,           \* distributor thread: "new", "loop", "get", "post", "done", "raised"
  outT,            \* writer thread: "new", "loop", "get", "send", "post", "done", "raised"
  msg,             \* the reader's accumulator (local variable msg)
  distData,        \* the item the distributor has dequeued (local variable data)
  outData,         \* the item the writer has dequeued (local variable data)
  inQ,             \* BaseCommDeviceHelper.__inQ
  outQ,            \* BaseCommDeviceHelper.__outQ
  wire,            \* bytes the peer has written that recv has not returned yet
  peerEOF,         \* the peer has shut its side down
  recvSize,        \* the largest chunk one receive returns
  chunkLog,        \* every chunk recv returned, and what the reader enqueued for it
  enqLog,          \* every message the reader has put on the inbound queue
  sendLog,         \* every item passed to send()
  wireOut,         \* every text handed to socket.sendall, as bytes
  event,           \* the two EventHandlers' cb_routines, by channel
  posted,          \* per channel, the payloads post was called with, and by whom
  received,        \* per channel, the callback invocations: dest and payload
  mainPc,          \* where the thread calling open()/close() stands
  callErr,         \* the exception the latest open()/close() raised to its caller
  lastCall,        \* the latest of open() and close() that was called
  openedOk,        \* an open() has returned without raising
  nCalls           \* number of open()/close() calls so far

threadVars == <<inT, distT, outT>>
readerVars == <<msg, wire, peerEOF, recvSize, chunkLog, enqLog>>
writerVars == <<outData, sendLog, wireOut>>
busStateVars == <<event, posted, received>>
callVars == <<mainPc, callErr, lastCall, openedOk, nCalls>>
devVars == <<continue_thread, sock, inT, distT, outT, msg, distData, outData, inQ, outQ,
             wire, peerEOF, recvSize, chunkLog, enqLog, sendLog, wireOut, event, posted,
             received, mainPc, callErr, lastCall, openedOk, nCalls>>

vars == <<busVars, devVars>>

RX_EVENT == "IPHelperInEvent"
TX_EVENT == "IPHelperOutEvent"
Channels == {RX_EVENT, TX_EVENT}

CR == "CR"
LF == "LF"
\* BaseCommDeviceHelper.EOLL and EOL.
EOLL == {<<CR, LF>>, <<LF>>}
EOL == <<CR, LF>>

Sentinel == <<"None">>

\* The bytes of "\r" and "\n" (EOLL), and the first value that is no ASCII
\* byte for bytes.decode('ascii').
ByteCR == 13
ByteLF == 10
AsciiLimit == 128

\* bytes.decode('ascii') on one byte: the character, for a byte below 128.
Chr(b) ==
  CASE b = 13 -> CR
    [] b = 10 -> LF
    [] b = 97 -> "a"
    [] b = 101 -> "e"
    [] b = 103 -> "g"
    [] b = 104 -> "h"
    [] b = 105 -> "i"
    [] b = 108 -> "l"
    [] b = 110 -> "n"
    [] b = 111 -> "o"
    [] b = 112 -> "p"
    [] b = 113 -> "q"
    [] OTHER -> "?"

\* str.encode('ascii') on one character.
Ord(c) ==
  CASE c = CR -> 13
    [] c = LF -> 10
    [] c = "a" -> 97
    [] c = "e" -> 101
    [] c = "g" -> 103
    [] c = "h" -> 104
    [] c = "i" -> 105
    [] c = "l" -> 108
    [] c = "n" -> 110
    [] c = "o" -> 111
    [] c = "p" -> 112
    [] c = "q" -> 113
    [] OTHER -> 63

\* data.decode('ascii') raises UnicodeDecodeError on a byte of 128 or more.
Decodable(chunk) == \A i \in DOMAIN chunk : chunk[i] < AsciiLimit

decode(chunk) == [i \in DOMAIN chunk |-> Chr(chunk[i])]

encode(text) == [i \in DOMAIN text |-> Ord(text[i])]

\* Python's `t in s` for strings.
Contains(s, t) ==
  \E i \in 0..(Len(s) - Len(t)) : \A j \in 1..Len(t) : s[i + j] = t[j]

EndsWith(s, t) ==
  /\ Len(s) >= Len(t)
  /\ \A j \in 1..Len(t) : s[Len(s) - Len(t) + j] = t[j]

\* A plausible slip: a lone carriage return is taken for a terminator.
HasTerminator_cr(text) == Contains(text, <<CR>>) \/ Contains(text, <<LF>>)

\* ip_helper.py line 66: "\r\n" in msg or "\n" in msg.
HasTerminator(text) == Contains(text, <<CR, LF>>) \/ Contains(text, <<LF>>)

Alive(t) == t \notin {"new", "done", "raised"}

IsPrefix(s, t) == Len(s) <= Len(t) /\ \A i \in DOMAIN s : s[i] = t[i]

\* EventHandler.post as one step of the calling thread: the callbacks of the
\* copied mapping are called in order up to the first that raises.
Invoked(routines) ==
  LET raising == {i \in DOMAIN routines : routines[i].on_event = "raise"}
      last == IF raising = {} THEN Len(routines)
              ELSE CHOOSE i \in raising : \A j \in raising : i <= j
  IN SubSeq(routines, 1, last)

PostRaises(routines) == \E i \in DOMAIN routines : routines[i].on_event = "raise"

Delivered(routines, payload) ==
  [i \in DOMAIN Invoked(routines) |-> [dest |-> routines[i].name, payload |-> payload]]


(***************************************************************************)
(* The operations of one EventHandler.                                     *)
(***************************************************************************)
\* subscribe(name, on_event, cookie), called from any thread.
Subscribe(name, on_event, cookie) ==
  /\ cb_routines' = subscribe(cb_routines, name, on_event, cookie)
  /\ firstReg' =
       IF \E i \in DOMAIN firstReg : firstReg[i].name = name
         THEN [i \in DOMAIN firstReg |->
                 IF firstReg[i].name = name
                      /\ (firstReg[i].on_event # on_event \/ firstReg[i].cookie # cookie)
                   THEN [firstReg[i] EXCEPT !.dup = TRUE]
                   ELSE firstReg[i]]
         ELSE Append(firstReg, [name |-> name, on_event |-> on_event, cookie |-> cookie,
                                dup |-> FALSE])
  /\ UNCHANGED <<packet, heap, posting, deliveries, busErr, nPosts>>
  /\ UNCHANGED devVars

\* unsubscribe(name), called from any thread.
Unsubscribe(name) ==
  /\ cb_routines' = unsubscribe(cb_routines, name)
  /\ firstReg' = SelectSeq(firstReg, LAMBDA r : r.name # name)
  /\ UNCHANGED <<packet, heap, posting, deliveries, busErr, nPosts>>
  /\ UNCHANGED devVars

\* post, lines 68-72: the packet is built once and the mapping is copied.
PostBegin(payload, kw) ==
  /\ ~posting.active
  /\ nPosts < MaxPosts
  /\ heap' = <<BuildPacket(packet, payload, kw)>>
  /\ posting' = [active |-> TRUE, obj |-> 1, snap |-> cb_routines, idx |-> 1,
                 built |-> BuildPacket(packet, payload, kw), first |-> firstReg]
  /\ deliveries' = <<>>
  /\ nPosts' = nPosts + 1
  /\ busErr' = None
  /\ UNCHANGED <<packet, cb_routines, firstReg>>
  /\ UNCHANGED devVars

\* A plausible slip: the loop walks the mapping itself.
Iterated_live(snap, live) == live

\* post, line 72: the loop walks self.cb_routines.copy(), the copy made when
\* the loop starts, not the mapping other threads go on changing.
Iterated(snap, live) == snap

\* A plausible slip: the bus catches what a callback raises.
Raises_caught(on_event) == FALSE

\* post, line 77: the callback is called outside any try block, so what it
\* raises leaves the loop and post.
Raises(on_event) == on_event = "raise"

\* post, lines 73-77, one iteration: dest and cookie are written into the
\* packet and the subscriber's callback is called with it.
PostDeliver ==
  /\ posting.active
  /\ posting.idx <= Len(Iterated(posting.snap, cb_routines))
  /\ LET r == Iterated(posting.snap, cb_routines)[posting.idx]
         obj == PacketFor(posting)
         base == IF obj \in DOMAIN heap THEN heap[obj] ELSE posting.built
         handed == [base EXCEPT !.dest = r.name, !.cookie = r.cookie]
     IN /\ deliveries' = Append(deliveries,
              [obj |-> obj, name |-> r.name, on_event |-> r.on_event, seen |-> handed,
               built |-> posting.built,
               first |-> IF \E i \in DOMAIN posting.first : posting.first[i].name = r.name
                           THEN Lookup(posting.first, r.name) ELSE NoReg])
        /\ heap' = [i \in DOMAIN heap \cup {obj} |->
                      IF i = obj THEN RunCallback(r.on_event, handed) ELSE heap[i]]
        /\ IF Raises(r.on_event)
             THEN /\ posting' = NoPost
                  /\ busErr' = "CallbackError"
             ELSE /\ posting' = [posting EXCEPT !.idx = @ + 1]
                  /\ UNCHANGED busErr
  /\ UNCHANGED <<packet, cb_routines, firstReg, nPosts>>
  /\ UNCHANGED devVars

\* post, line 78: every callback has returned.
PostEnd ==
  /\ posting.active
  /\ posting.idx > Len(Iterated(posting.snap, cb_routines))
  /\ posting' = NoPost
  /\ UNCHANGED <<packet, cb_routines, heap, deliveries, firstReg, busErr, nPosts>>
  /\ UNCHANGED devVars

BusNext ==
  \/ \E n \in Names, r \in Registrations : Subscribe(n, r[1], r[2])
  \/ \E n \in Names : Unsubscribe(n)
  \/ \E p \in Payloads, kw \in KwargsSet : PostBegin(p, kw)
  \/ PostDeliver
  \/ PostEnd

\* What Queue.get(timeout) returns when the timeout expires on an empty
\* queue: the empty result, which the stages test with `is not None`.
EmptyResult == Sentinel

\* A plausible slip: the dequeued item is not tested.
IsMessage_unchecked(data) == TRUE

\* base_dev_helper.py lines 365 and 380: `if data is not None`.
IsMessage(data) == data # Sentinel

\* Queue.put: the item goes to the tail of the FIFO.
put(queue, item) == Append(queue, item)

\* A plausible slip: the accumulator is not reset after it was enqueued.
Reassemble_noreset(acc, chunk) ==
  LET text == acc \o decode(chunk)
  IN IF HasTerminator(text)
       THEN [msg |-> text, puts |-> <<text>>]
       ELSE [msg |-> text, puts |-> <<>>]

\* IPHelper.__process_input__, lines 64-68, for one non-empty chunk: the new
\* accumulator and the messages put on the queue.  The chunk is decoded and
\* appended; an accumulator holding a terminator is enqueued whole and reset.
Reassemble(acc, chunk) ==
  LET text == acc \o decode(chunk)
  IN IF HasTerminator(text)
       THEN [msg |-> <<>>, puts |-> <<text>>]
       ELSE [msg |-> text, puts |-> <<>>]

\* A plausible slip: the stage loops forever (while True).
KeepsRunning_always(flag) == TRUE

\* The loop condition of the three stages (IPHelper line 62,
\* BaseCommDeviceHelper lines 363 and 378): while self.continue_thread.
KeepsRunning(flag) == flag

\* A plausible slip: a stage leaves its loop on a None item (break).
AfterNone_exit == "done"

\* __process_output__ line 365 and __distribute_input__ line 380: an item
\* that is None is skipped and the loop goes back to its condition.
AfterNone == "loop"

\* A plausible slip: the reader leaves its loop on an empty chunk (break).
AfterEmptyChunk_break == "done"

\* IPHelper.__process_input__, line 64: on an empty chunk the body is
\* skipped and the loop goes back to its condition.
AfterEmptyChunk == "loop"

\* A plausible slip: the writer posts the item before it sends it.
AfterDequeue_post == "post"

\* __process_output__, lines 366-367: a dequeued message is first handed to
\* the send hook.
AfterDequeue == "send"

\* IPHelper.__process_input__, line 62 (BaseCommDeviceHelper line 347): the
\* reader tests the running flag at the head of each iteration.
ReaderLoop ==
  /\ inT = "loop"
  /\ inT' = IF KeepsRunning(continue_thread) THEN "recv" ELSE "done"
  /\ UNCHANGED <<continue_thread, sock, distT, outT, distData, inQ, outQ, readerVars,
                 writerVars, busStateVars, callVars, busVars>>

\* IPHelper.__process_input__, lines 63-69 with _recv (line 98): a receive
\* returns between one byte and recvSize bytes of what the peer wrote.
ReaderRecv(k) ==
  /\ inT = "recv"
  /\ sock = "open"
  /\ k \in 1..recvSize
  /\ k <= Len(wire)
  /\ LET chunk == SubSeq(wire, 1, k)
         r == Reassemble(msg, chunk)
     IN /\ wire' = SubSeq(wire, k + 1, Len(wire))
        /\ IF Decodable(chunk)
             THEN /\ msg' = r.msg
                  /\ inQ' = IF r.puts = <<>> THEN inQ ELSE put(inQ, r.puts[1])
                  /\ enqLog' = enqLog \o r.puts
                  /\ chunkLog' = Append(chunkLog, [data |-> chunk, puts |-> r.puts])
                  /\ inT' = "loop"
             ELSE /\ chunkLog' = Append(chunkLog, [data |-> chunk, puts |-> <<>>])
                  /\ inT' = "raised"
                  /\ UNCHANGED <<msg, inQ, enqLog>>
  /\ UNCHANGED <<continue_thread, sock, distT, outT, distData, outQ, peerEOF, recvSize,
                 writerVars, busStateVars, callVars, busVars>>

\* IPHelper.__process_input__, line 64: recv returned b'' (the peer shut
\* down and nothing is left to read); nothing is flushed or reset.
ReaderRecvEmpty ==
  /\ inT = "recv"
  /\ sock = "open"
  /\ wire = <<>>
  /\ peerEOF
  /\ inT' = AfterEmptyChunk
  /\ UNCHANGED <<continue_thread, sock, distT, outT, distData, inQ, outQ, readerVars,
                 writerVars, busStateVars, callVars, busVars>>

\* The peer shuts its side of the connection down.
PeerShutdown ==
  /\ sock = "open"
  /\ ~peerEOF
  /\ peerEOF' = TRUE
  /\ UNCHANGED <<continue_thread, sock, threadVars, msg, distData, inQ, outQ, wire,
                 recvSize, chunkLog, enqLog, writerVars, busStateVars, callVars, busVars>>

\* __distribute_input__, line 378: the running flag is tested.
DistLoop ==
  /\ distT = "loop"
  /\ distT' = IF KeepsRunning(continue_thread) THEN "get" ELSE "done"
  /\ UNCHANGED <<continue_thread, sock, inT, outT, distData, inQ, outQ, readerVars,
                 writerVars, busStateVars, callVars, busVars>>

\* __distribute_input__, lines 379-380: an item is dequeued.
DistGet ==
  /\ distT = "get"
  /\ inQ # <<>>
  /\ distData' = Head(inQ)
  /\ inQ' = Tail(inQ)
  /\ distT' = IF IsMessage(Head(inQ)) THEN "post" ELSE AfterNone
  /\ UNCHANGED <<continue_thread, sock, inT, outT, outQ, readerVars, writerVars,
                 busStateVars, callVars, busVars>>

\* __distribute_input__, lines 379-380: the get timed out on an empty queue.
DistTimeout ==
  /\ distT = "get"
  /\ inQ = <<>>
  /\ distData' = EmptyResult
  /\ distT' = IF IsMessage(EmptyResult) THEN "post" ELSE AfterNone
  /\ UNCHANGED <<continue_thread, sock, inT, outT, inQ, outQ, readerVars, writerVars,
                 busStateVars, callVars, busVars>>

\* __distribute_input__, line 381: the item is posted on the RX bus; an
\* exception of a callback ends the thread.
DistPost ==
  /\ distT = "post"
  /\ posted' = [posted EXCEPT ![RX_EVENT] = Append(@, [payload |-> distData, by |-> "dist"])]
  /\ received' = [received EXCEPT ![RX_EVENT] = @ \o Delivered(event[RX_EVENT], distData)]
  /\ distT' = IF PostRaises(event[RX_EVENT]) THEN "raised" ELSE "loop"
  /\ UNCHANGED <<continue_thread, sock, inT, outT, distData, inQ, outQ, readerVars,
                 writerVars, event, callVars, busVars>>

(***************************************************************************)
(* The framed reader and the distributor of a session that has been opened *)
(* and has one RX subscriber, fed by a peer byte stream.                   *)
(***************************************************************************)
MaxStream == 4

\* IPHelper._recv, line 98: socket.recv(2).
RecvSize == 2

StreamBytes == {97, ByteCR, ByteLF, 200}

RECURSIVE SeqsUpTo(_, _)
SeqsUpTo(S, n) ==
  IF n = 0 THEN {<<>>}
  ELSE LET shorter == SeqsUpTo(S, n - 1)
       IN shorter \cup {Append(q, x) : q \in shorter, x \in S}

\* The session after open() and subscribe("n1", callback): the flag is set,
\* the socket is connected and the three stages stand at the head of their
\* loops.
OpenedWith(stream, size) ==
  /\ continue_thread = TRUE
  /\ sock = "open"
  /\ inT = "loop"
  /\ distT = "loop"
  /\ outT = "loop"
  /\ msg = <<>>
  /\ distData = Sentinel
  /\ outData = Sentinel
  /\ inQ = <<>>
  /\ outQ = <<>>
  /\ wire = stream
  /\ peerEOF = FALSE
  /\ recvSize = size
  /\ chunkLog = <<>>
  /\ enqLog = <<>>
  /\ sendLog = <<>>
  /\ wireOut = <<>>
  /\ event = [c \in Channels |->
                IF c = RX_EVENT
                  THEN subscribe(<<>>, "n1", "log", None)
                  ELSE <<>>]
  /\ posted = [c \in Channels |-> <<>>]
  /\ received = [c \in Channels |-> <<>>]
  /\ mainPc = "idle"
  /\ callErr = None
  /\ lastCall = "open"
  /\ openedOk = TRUE
  /\ nCalls = 1

FrameInit ==
  /\ BusInit
  /\ \E stream \in SeqsUpTo(StreamBytes, MaxStream) : OpenedWith(stream, RecvSize)

FrameNext ==
  \/ ReaderLoop
  \/ \E k \in 1..Len(wire) : ReaderRecv(k)
  \/ ReaderRecvEmpty
  \/ PeerShutdown
  \/ DistLoop
  \/ DistGet
  \/ DistTimeout
  \/ DistPost

SpecFrame == FrameInit /\ [][FrameNext]_vars

\* The peer's byte stream is "hello\r\n".
HelloBytes == <<104, 101, 108, 108, 111, 13, 10>>
HelloText == <<"h", "e", "l", "l", "o", CR, LF>>
ChunkSizes == {1, 2, 7}

HelloInit ==
  /\ BusInit
  /\ \E size \in ChunkSizes : OpenedWith(HelloBytes, size)

SpecHello == HelloInit /\ [][FrameNext]_vars

(***************************************************************************)
(* The session as __init__ leaves it (base_dev_helper.py lines 68-93): the *)
(* flag is set, the threads are created and not started, no socket exists. *)
(***************************************************************************)
Constructed(stream) ==
  /\ continue_thread = TRUE
  /\ sock = "unset"
  /\ inT = "new"
  /\ distT = "new"
  /\ outT = "new"
  /\ msg = <<>>
  /\ distData = Sentinel
  /\ outData = Sentinel
  /\ inQ = <<>>
  /\ outQ = <<>>
  /\ wire = stream
  /\ peerEOF = FALSE
  /\ recvSize = RecvSize
  /\ chunkLog = <<>>
  /\ enqLog = <<>>
  /\ sendLog = <<>>
  /\ wireOut = <<>>
  /\ event = [c \in Channels |-> <<>>]
  /\ posted = [c \in Channels |-> <<>>]
  /\ received = [c \in Channels |-> <<>>]
  /\ mainPc = "idle"
  /\ callErr = None
  /\ lastCall = "none"
  /\ openedOk = FALSE
  /\ nCalls = 0

SpecBusInit == BusInit /\ Constructed(<<>>)

SpecBus == SpecBusInit /\ [][BusNext]_vars

(***************************************************************************)
(* The session lifecycle: open, close, send, subscribe and the writer.     *)
(***************************************************************************)
MaxSend == 2
MaxCalls == 3

\* The texts callers pass to send().
Messages == {<<"p">>, <<"q", LF>>}

\* The byte streams the peer writes in the inbound lifecycle specification.
PeerStreams == {<<97, ByteLF, ByteCR, ByteLF>>}

DevNames == {"n1"}
DevCallbacks == {"log", "raise"}

\* How the transport open hook ends: "ok", or the exception it raises:
\* SystemExit from sys.exit() after connect failed on the socket just created,
\* ValueError (or IndexError) from a malformed address.
OpenOutcomes == {"ok", "SystemExit", "ValueError"}

\* IPHelper._send, lines 82-84: the text with "\r\n" appended unless it
\* contains a terminator.
Framed(text) ==
  IF ~Contains(text, <<CR, LF>>) /\ ~Contains(text, <<LF>>) THEN text \o EOL ELSE text

\* BaseCommDeviceHelper.send.
Send(data) ==
  /\ Len(sendLog) < MaxSend
  /\ outQ' = put(outQ, data)
  /\ sendLog' = Append(sendLog, data)
  /\ UNCHANGED <<continue_thread, sock, threadVars, distData, inQ, readerVars, outData,
                 wireOut, busStateVars, callVars, busVars>>

\* BaseCommDeviceHelper.subscribe on a channel.
DevSubscribe(ch, name, on_event) ==
  /\ event' = [event EXCEPT ![ch] = subscribe(@, name, on_event, None)]
  /\ UNCHANGED <<continue_thread, sock, threadVars, distData, inQ, outQ, readerVars,
                 writerVars, posted, received, callVars, busVars>>

\* A plausible slip: a stage that has ended is started again.
Startable_ended(t) == ~Alive(t)

\* A plausible slip: open() starts the stages whatever their state.
Startable_always(t) == TRUE

\* Thread.start (open, lines 228-230) succeeds once: on a thread that was
\* started before, it raises RuntimeError.
Startable(t) == t = "new"

\* BaseCommDeviceHelper.open with IPHelper._open: the flag is set, the hook
\* runs, and the three threads are started; Thread.start raises RuntimeError
\* on a thread that was started before.
Open(outcome) ==
  /\ mainPc = "idle"
  /\ nCalls < MaxCalls
  /\ nCalls' = nCalls + 1
  /\ lastCall' = "open"
  /\ continue_thread' = TRUE
  /\ sock' = CASE outcome = "ok" -> "open"
               [] outcome = "SystemExit" -> "unconnected"
               [] OTHER -> sock
  /\ IF outcome = "ok"
       THEN IF Startable(inT)
              THEN /\ inT' = "loop"
                   /\ outT' = "loop"
                   /\ distT' = "loop"
                   /\ callErr' = None
                   /\ openedOk' = TRUE
              ELSE /\ callErr' = "RuntimeError"
                   /\ UNCHANGED <<threadVars, openedOk>>
       ELSE /\ callErr' = outcome
            /\ UNCHANGED <<threadVars, openedOk>>
  /\ UNCHANGED <<mainPc, distData, inQ, outQ, readerVars, writerVars, busStateVars, busVars>>

\* A plausible slip: the flag is not cleared before the hook is called.
ClosedFlag_kept == continue_thread

\* close, line 234: self.continue_thread = False, the first statement.
ClosedFlag == FALSE

\* close, line 234.
CloseBegin ==
  /\ mainPc = "idle"
  /\ nCalls < MaxCalls
  /\ nCalls' = nCalls + 1
  /\ lastCall' = "close"
  /\ continue_thread' = ClosedFlag
  /\ mainPc' = "close_hook"
  /\ callErr' = None
  /\ UNCHANGED <<sock, threadVars, distData, inQ, outQ, readerVars, writerVars,
                 busStateVars, openedOk, busVars>>

\* close, line 235, with IPHelper._close: shutdown and close of the socket.
\* Without a socket attribute the hook raises AttributeError; on a socket
\* that is not connected or already closed, shutdown raises OSError.
CloseHook ==
  /\ mainPc = "close_hook"
  /\ IF sock = "open"
       THEN /\ sock' = "closed"
            /\ mainPc' = "close_in"
            /\ UNCHANGED callErr
       ELSE /\ callErr' = IF sock = "unset" THEN "AttributeError" ELSE "OSError"
            /\ mainPc' = "idle"
            /\ UNCHANGED sock
  /\ UNCHANGED <<continue_thread, threadVars, distData, inQ, outQ, readerVars, writerVars,
                 busStateVars, lastCall, openedOk, nCalls, busVars>>

\* The queue on which close puts the sentinel for a thread (lines 237, 240
\* and 243): the inbound queue for the reader, the outbound queue for the
\* writer and for the distributor.
SentinelQueue(thread) == IF thread = "in" THEN "inQ" ELSE "outQ"

\* close, lines 236-237, 239-240, 242-243: a sentinel for a thread that is
\* alive.
CloseSentinel(thread, t, next) ==
  /\ mainPc = "close_" \o thread
  /\ IF Alive(t)
       THEN /\ inQ' = IF SentinelQueue(thread) = "inQ" THEN put(inQ, Sentinel) ELSE inQ
            /\ outQ' = IF SentinelQueue(thread) = "outQ" THEN put(outQ, Sentinel) ELSE outQ
            /\ mainPc' = "join_" \o thread
       ELSE /\ mainPc' = next
            /\ UNCHANGED <<inQ, outQ>>
  /\ UNCHANGED <<continue_thread, sock, threadVars, distData, readerVars, writerVars,
                 busStateVars, callErr, lastCall, openedOk, nCalls, busVars>>

CloseSentinelIn == CloseSentinel("in", inT, "close_out")
CloseSentinelOut == CloseSentinel("out", outT, "close_dist")
CloseSentinelDist == CloseSentinel("dist", distT, "idle")

\* A thread that waits where nothing is about to wake it: in recv on a
\* connected socket with nothing to read, or in a timed get on an empty queue.
Blocked(thread) ==
  CASE thread = "in" -> inT = "recv" /\ sock = "open" /\ wire = <<>> /\ ~peerEOF
    [] thread = "out" -> outT = "get" /\ outQ = <<>>
    [] thread = "dist" -> distT = "get" /\ inQ = <<>>

\* close, lines 238, 241, 244: join(timeout=4) returns when the thread has
\* ended, or when the timeout expires on a thread that is still waiting.
CloseJoin(thread, t, next) ==
  /\ mainPc = "join_" \o thread
  /\ ~Alive(t) \/ Blocked(thread)
  /\ mainPc' = next
  /\ UNCHANGED <<continue_thread, sock, threadVars, distData, inQ, outQ, readerVars,
                 writerVars, busStateVars, callErr, lastCall, openedOk, nCalls, busVars>>

CloseJoinIn == CloseJoin("in", inT, "close_out")
CloseJoinOut == CloseJoin("out", outT, "close_dist")
CloseJoinDist == CloseJoin("dist", distT, "idle")

\* The reader's recv on a socket that close has shut down and closed: it
\* returns b'' or raises OSError.
ReaderRecvClosed ==
  /\ inT = "recv"
  /\ sock = "closed"
  /\ inT' \in {"loop", "raised"}
  /\ UNCHANGED <<continue_thread, sock, distT, outT, distData, inQ, outQ, readerVars,
                 writerVars, busStateVars, callVars, busVars>>

\* __process_output__, line 363: the running flag is tested.
OutLoop ==
  /\ outT = "loop"
  /\ outT' = IF KeepsRunning(continue_thread) THEN "get" ELSE "done"
  /\ UNCHANGED <<continue_thread, sock, inT, distT, distData, inQ, outQ, readerVars,
                 writerVars, busStateVars, callVars, busVars>>

\* __process_output__, lines 364-365: an item is dequeued.
OutGet ==
  /\ outT = "get"
  /\ outQ # <<>>
  /\ outData' = Head(outQ)
  /\ outQ' = Tail(outQ)
  /\ outT' = IF IsMessage(Head(outQ)) THEN AfterDequeue ELSE AfterNone
  /\ UNCHANGED <<continue_thread, sock, inT, distT, distData, inQ, readerVars, sendLog,
                 wireOut, busStateVars, callVars, busVars>>

\* __process_output__, lines 364-365: the get timed out on an empty queue.
OutTimeout ==
  /\ outT = "get"
  /\ outQ = <<>>
  /\ outData' = EmptyResult
  /\ outT' = IF IsMessage(EmptyResult) THEN AfterDequeue ELSE AfterNone
  /\ UNCHANGED <<continue_thread, sock, inT, distT, distData, inQ, outQ, readerVars,
                 sendLog, wireOut, busStateVars, callVars, busVars>>

\* __process_output__, line 366, with IPHelper._send: the framed text is
\* written to the socket; sendall raises OSError on a closed socket and may
\* raise once the peer has shut down.
OutSend ==
  /\ outT = "send"
  /\ \/ /\ sock = "open"
        /\ wireOut' = Append(wireOut, encode(Framed(outData)))
        /\ outT' = "post"
     \/ /\ sock # "open" \/ peerEOF
        /\ outT' = "raised"
        /\ UNCHANGED wireOut
  /\ UNCHANGED <<continue_thread, sock, inT, distT, distData, inQ, outQ, readerVars,
                 outData, sendLog, busStateVars, callVars, busVars>>

\* A plausible slip: the text as transmitted is posted.
TxPayload_framed(data) == Framed(data)

\* The payload the writer posts on the TX bus (line 367): the dequeued item.
TxPayload(data) == data

\* __process_output__, line 367: the item is posted on the TX bus; an
\* exception of a callback ends the thread.
OutPost ==
  /\ outT = "post"
  /\ posted' = [posted EXCEPT ![TX_EVENT] =
                  Append(@, [payload |-> TxPayload(outData), by |-> "out"])]
  /\ received' = [received EXCEPT ![TX_EVENT] =
                    @ \o Delivered(event[TX_EVENT], TxPayload(outData))]
  /\ outT' = IF PostRaises(event[TX_EVENT]) THEN "raised" ELSE "loop"
  /\ UNCHANGED <<continue_thread, sock, inT, distT, distData, inQ, outQ, readerVars,
                 writerVars, event, callVars, busVars>>

(***************************************************************************)
(* Spec: the lifecycle with the outbound direction; the peer writes        *)
(* nothing.  SpecIn: the lifecycle with the inbound direction; nothing is  *)
(* sent.                                                                   *)
(***************************************************************************)
Init ==
  /\ BusInit
  /\ Constructed(<<>>)

Lifecycle ==
  \/ \E o \in OpenOutcomes : Open(o)
  \/ CloseBegin
  \/ CloseHook
  \/ CloseSentinelIn
  \/ CloseJoinIn
  \/ CloseSentinelOut
  \/ CloseJoinOut
  \/ CloseSentinelDist
  \/ CloseJoinDist
  \/ ReaderLoop
  \/ ReaderRecvClosed
  \/ DistLoop
  \/ DistGet
  \/ DistTimeout
  \/ OutLoop
  \/ OutGet
  \/ OutTimeout

Next ==
  \/ Lifecycle
  \/ \E d \in Messages \cup {Sentinel} : Send(d)
  \/ \E n \in DevNames, c \in DevCallbacks : DevSubscribe(TX_EVENT, n, c)
  \/ OutSend
  \/ OutPost

Spec == Init /\ [][Next]_vars

InInit ==
  /\ BusInit
  /\ \E stream \in PeerStreams : Constructed(stream)

InNext ==
  \/ Lifecycle
  \/ \E n \in DevNames, c \in DevCallbacks : DevSubscribe(RX_EVENT, n, c)
  \/ \E k \in 1..Len(wire) : ReaderRecv(k)
  \/ DistPost

SpecIn == InInit /\ [][InNext]_vars

(***************************************************************************)
(* SpecTx: the writer of an open session whose callers send texts of up to *)
(* MaxText characters, with and without terminators, and "ping".           *)
(***************************************************************************)
MaxText == 2

PingText == <<"p", "i", "n", "g">>

TxTexts == SeqsUpTo({"p", CR, LF}, MaxText) \cup {PingText}

TxInit ==
  /\ BusInit
  /\ OpenedWith(<<>>, RecvSize)

TxNext ==
  \/ \E d \in TxTexts : Send(d)
  \/ \E n \in DevNames : DevSubscribe(TX_EVENT, n, "log")
  \/ OutLoop
  \/ OutGet
  \/ OutTimeout
  \/ OutSend
  \/ OutPost

SpecTx == TxInit /\ [][TxNext]_vars

(***************************************************************************)
(* SpecShutdown: close() on an open session in which, before close() is    *)
(* called, the writer has dequeued the message m passed to send() (line    *)
(* 364) and the distributor has dequeued the message text the reader       *)
(* enqueued (line 379).  Each channel has one subscriber.                  *)
(***************************************************************************)
InboundTexts == {<<"a", LF>>}

Dequeued(m, text) ==
  /\ continue_thread = TRUE
  /\ sock = "open"
  /\ inT = "loop"
  /\ distT = "post"
  /\ outT = "send"
  /\ msg = <<>>
  /\ distData = text
  /\ outData = m
  /\ inQ = <<>>
  /\ outQ = <<>>
  /\ wire = <<>>
  /\ peerEOF = FALSE
  /\ recvSize = RecvSize
  /\ chunkLog = <<[data |-> encode(text), puts |-> <<text>>]>>
  /\ enqLog = <<text>>
  /\ sendLog = <<m>>
  /\ wireOut = <<>>
  /\ event = [c \in Channels |-> subscribe(<<>>, "n1", "log", None)]
  /\ posted = [c \in Channels |-> <<>>]
  /\ received = [c \in Channels |-> <<>>]
  /\ mainPc = "idle"
  /\ callErr = None
  /\ lastCall = "open"
  /\ openedOk = TRUE
  /\ nCalls = 1

ShutdownInit ==
  /\ BusInit
  /\ \E m \in Messages, text \in InboundTexts : Dequeued(m, text)

ShutdownNext ==
  \/ CloseBegin
  \/ CloseHook
  \/ CloseSentinelIn
  \/ CloseJoinIn
  \/ CloseSentinelOut
  \/ CloseJoinOut
  \/ CloseSentinelDist
  \/ CloseJoinDist
  \/ ReaderLoop
  \/ ReaderRecvClosed
  \/ DistLoop
  \/ DistGet
  \/ DistTimeout
  \/ DistPost
  \/ OutLoop
  \/ OutGet
  \/ OutTimeout
  \/ OutSend
  \/ OutPost

SpecShutdown == ShutdownInit /\ [][ShutdownNext]_vars

(***************************************************************************)
(* SpecAnnounce: subscribe, unsubscribe, start and stop on the two         *)
(* channels of a constructed session, called from one thread.              *)
(***************************************************************************)
MaxAnnounce == 2

AnnNames == {"n1", "n2"}

\* The (channel, name) pairs callers use: both names on the RX channel, one
\* on the TX channel; and the callbacks they register on a channel.
AnnTargets == {<<RX_EVENT, "n1">>, <<RX_EVENT, "n2">>, <<TX_EVENT, "n1">>}
AnnCallbacks(ch) == IF ch = RX_EVENT THEN DevCallbacks ELSE {"log"}

\* 'Start logging topic %s to %s' % (event, name), line 206.
StartPayload(ch, name) == <<"Start logging topic", ch, "to", name>>

\* 'Stop logging topic %s to %s' % (event, name), line 222.
StopPayload(ch, name) == <<"Stop logging topic", ch, "to", name>>

\* A plausible slip: the announcement is posted before the subscription.
StartAudience_before(routines, name, on_event) == routines

\* start, lines 205-206: the mapping the announcement is posted to is the
\* one subscribe has just been applied to.
StartAudience(routines, name, on_event) == subscribe(routines, name, on_event, None)

\* A plausible slip: the name is removed before the announcement is posted.
StopAudience_after(routines, name) == unsubscribe(routines, name)

\* stop, lines 222-223: the mapping the announcement is posted to is the one
\* unsubscribe has not yet been applied to.
StopAudience(routines, name) == routines

Announcements == Len(posted[RX_EVENT]) + Len(posted[TX_EVENT])

\* BaseCommDeviceHelper.start: subscribe, then post the announcement; an
\* exception of a callback leaves start through the post.
Start(ch, name, on_event) ==
  /\ Announcements < MaxAnnounce
  /\ LET audience == StartAudience(event[ch], name, on_event)
     IN /\ event' = [event EXCEPT ![ch] = subscribe(@, name, on_event, None)]
        /\ posted' = [posted EXCEPT ![ch] =
                        Append(@, [payload |-> StartPayload(ch, name), by |-> "start"])]
        /\ received' = [received EXCEPT ![ch] =
                          @ \o Delivered(audience, StartPayload(ch, name))]
  /\ UNCHANGED <<continue_thread, sock, threadVars, distData, inQ, outQ, readerVars,
                 writerVars, callVars, busVars>>

\* BaseCommDeviceHelper.stop: post the announcement, then unsubscribe; an
\* exception of a callback leaves stop before the unsubscribe.
Stop(ch, name) ==
  /\ Announcements < MaxAnnounce
  /\ LET audience == StopAudience(event[ch], name)
     IN /\ posted' = [posted EXCEPT ![ch] =
                        Append(@, [payload |-> StopPayload(ch, name), by |-> "stop"])]
        /\ received' = [received EXCEPT ![ch] =
                          @ \o Delivered(audience, StopPayload(ch, name))]
        /\ event' = IF PostRaises(audience)
                      THEN event
                      ELSE [event EXCEPT ![ch] = unsubscribe(@, name)]
  /\ UNCHANGED <<continue_thread, sock, threadVars, distData, inQ, outQ, readerVars,
                 writerVars, callVars, busVars>>

\* BaseCommDeviceHelper.unsubscribe on a channel.
DevUnsubscribe(ch, name) ==
  /\ event' = [event EXCEPT ![ch] = unsubscribe(@, name)]
  /\ UNCHANGED <<continue_thread, sock, threadVars, distData, inQ, outQ, readerVars,
                 writerVars, posted, received, callVars, busVars>>

AnnounceNext ==
  \/ \E t \in AnnTargets : \E c \in AnnCallbacks(t[1]) : DevSubscribe(t[1], t[2], c)
  \/ \E t \in AnnTargets : DevUnsubscribe(t[1], t[2])
  \/ \E t \in AnnTargets : \E c \in AnnCallbacks(t[1]) : Start(t[1], t[2], c)
  \/ \E t \in AnnTargets : Stop(t[1], t[2])

SpecAnnounce == Init /\ [][AnnounceNext]_vars

(***************************************************************************)
(* Claims about the session, checked under Spec and SpecIn.                *)
(***************************************************************************)
NonSentinel(items) == SelectSeq(items, LAMBDA d : d # Sentinel)

PayloadsOf(posts) == [i \in DOMAIN posts |-> posts[i].payload]

DeliveredTo(name, invocations) ==
  PayloadsOf(SelectSeq(invocations, LAMBDA r : r.dest = name))

RECURSIVE IsSubseq(_, _)
IsSubseq(s, t) ==
  IF s = <<>> THEN TRUE
  ELSE IF t = <<>> THEN FALSE
  ELSE IF Head(s) = Head(t) THEN IsSubseq(Tail(s), Tail(t))
  ELSE IsSubseq(s, Tail(t))

\* C1: the payloads posted on the TX bus are, in order and unaltered, an
\* initial part of the non-sentinel items passed to send(); what a TX
\* subscriber is handed is taken from them in the same order without
\* repetition; and once a live writer has emptied the queue and waits, every
\* non-sentinel item passed to send() has been posted.
C1_OutboundOrder ==
  /\ IsPrefix(PayloadsOf(posted[TX_EVENT]), NonSentinel(sendLog))
  /\ \A n \in DevNames :
       IsSubseq(DeliveredTo(n, received[TX_EVENT]), PayloadsOf(posted[TX_EVENT]))
  /\ (outT \in {"loop", "get"} /\ outQ = <<>>) =>
        PayloadsOf(posted[TX_EVENT]) = NonSentinel(sendLog)

\* C1 witness: two different messages were sent and a TX subscriber has been
\* handed both of them, in the order sent.
C1_Witness ==
  /\ Len(sendLog) = 2
  /\ sendLog[1] # sendLog[2]
  /\ Sentinel \notin Range(sendLog)
  /\ DeliveredTo("n1", received[TX_EVENT]) = sendLog

\* C2: the payloads posted on the RX bus are, in order, an initial part of
\* the messages the reader enqueued, each posted at most once; what an RX
\* subscriber is handed is taken from them in the same order; and once a live
\* distributor has emptied the queue and waits, every enqueued message has
\* been posted.
C2_InboundOrder ==
  /\ IsPrefix(PayloadsOf(posted[RX_EVENT]), enqLog)
  /\ \A n \in DevNames :
       IsSubseq(DeliveredTo(n, received[RX_EVENT]), PayloadsOf(posted[RX_EVENT]))
  /\ (distT \in {"loop", "get"} /\ inQ = <<>>) => PayloadsOf(posted[RX_EVENT]) = enqLog

\* C2 witness: the reader enqueued two different messages and an RX
\* subscriber has been handed both, in the order enqueued.
C2_Witness ==
  /\ Len(enqLog) = 2
  /\ enqLog[1] # enqLog[2]
  /\ DeliveredTo("n1", received[RX_EVENT]) = enqLog

\* C7: once close() has returned on a session that was opened successfully,
\* none of the three stages is alive.
C7_CleanShutdown ==
  (lastCall = "close" /\ mainPc = "idle" /\ callErr = None /\ openedOk)
    => ~Alive(inT) /\ ~Alive(distT) /\ ~Alive(outT)

\* C8: in every session state close() completes without raising and leaves
\* the running flag false.
C8_CloseAlwaysSafe ==
  (lastCall = "close" /\ mainPc = "idle") => callErr = None /\ ~continue_thread

\* C9: when the transport open hook fails in open(), no stage is started and
\* the running flag is not left true.
C9_NoPartialSession ==
  (lastCall = "open" /\ callErr \in {"SystemExit", "ValueError"} /\ ~openedOk)
    => /\ inT = "new" /\ distT = "new" /\ outT = "new"
       /\ ~continue_thread

(***************************************************************************)
(* Claims about the event bus, checked under SpecBus.                      *)
(***************************************************************************)

\* C6: subscribing a name that is already registered changes nothing: the
\* mapping is, entry for entry and in order, the registrations that were made
\* while their name was absent; every delivery of a post invokes the callback
\* of that first registration with its cookie; and no name is delivered to
\* twice in one post.
C6_FirstRegistrationWins ==
  /\ cb_routines = Registered(firstReg)
  /\ \A i \in DOMAIN deliveries :
       /\ deliveries[i].first.name = deliveries[i].name
       /\ deliveries[i].on_event = deliveries[i].first.on_event
       /\ deliveries[i].seen.cookie = deliveries[i].first.cookie
  /\ \A i, j \in DOMAIN deliveries :
       i # j => deliveries[i].name # deliveries[j].name

\* C6 witness: a post that began after a differing re-subscribe of a
\* registered name was made has invoked that name's callback.
C6_Witness ==
  \E i \in DOMAIN deliveries : deliveries[i].first.dup

\* C10: within one post every subscriber has a packet of its own: what it is
\* handed carries the fields the post built and its own dest, and the packet
\* it was handed keeps its dest and cookie whatever is delivered afterwards.
C10_PacketIsolation ==
  \A i \in DOMAIN deliveries :
    LET d == deliveries[i] IN
      /\ d.seen.dest = d.name
      /\ d.seen.src = d.built.src
      /\ d.seen.event = d.built.event
      /\ d.seen.payload = d.built.payload
      /\ d.on_event # "mutate" =>
           /\ heap[d.obj].dest = d.name
           /\ heap[d.obj].cookie = d.seen.cookie

(***************************************************************************)
(* Claims about the framed reader, checked under SpecHello and SpecFrame.  *)
(***************************************************************************)

\* C3: with the peer's stream "hello\r\n" and any split of it into chunks of
\* at most 1, 2 or 7 bytes, the reader enqueues nothing but the one message
\* "hello\r\n", has enqueued it once the last byte is received, and the RX
\* subscriber receives exactly that message once the distributor has drained
\* the queue.
C3_HelloRoundTrip ==
  /\ IsPrefix(enqLog, <<HelloText>>)
  /\ wire = <<>> => enqLog = <<HelloText>> /\ msg = <<>>
  /\ IsPrefix(received[RX_EVENT], <<[dest |-> "n1", payload |-> HelloText]>>)
  /\ (wire = <<>> /\ inQ = <<>> /\ distT # "post") =>
        received[RX_EVENT] = <<[dest |-> "n1", payload |-> HelloText]>>

\* C3 witness: the stream was received in more than one chunk and the one
\* message has reached the RX subscriber.
C3_Witness ==
  /\ Len(chunkLog) > 1
  /\ wire = <<>>
  /\ received[RX_EVENT] = <<[dest |-> "n1", payload |-> HelloText]>>

\* C4: when a chunk ends with "\r" and the next chunk begins with "\n" (both
\* of them ASCII), the reader enqueues exactly one message for the second
\* chunk and that message contains "\r\n".
C4_SplitTerminator ==
  \A i \in DOMAIN chunkLog :
    (/\ i > 1
     /\ Decodable(chunkLog[i].data)
     /\ chunkLog[i - 1].data[Len(chunkLog[i - 1].data)] = ByteCR
     /\ chunkLog[i].data[1] = ByteLF)
    => /\ Len(chunkLog[i].puts) = 1
       /\ Contains(chunkLog[i].puts[1], <<CR, LF>>)

\* C5: every message the reader enqueues ends with a line terminator.
C5_NewlineTerminated ==
  \A i \in DOMAIN enqLog :
    EndsWith(enqLog[i], <<CR, LF>>) \/ EndsWith(enqLog[i], <<LF>>)

(***************************************************************************)
(* Further claims about the event bus, checked under SpecBus.              *)
(***************************************************************************)
\* C11: the bus's stored src is the one given at construction, and every
\* packet handed to a subscriber carries it, whatever extra fields the post
\* was given.
C11_SrcImmutable ==
  /\ packet.src = BusSrc
  /\ \A i \in DOMAIN deliveries : deliveries[i].seen.src = BusSrc

\* C12: while a post is in flight, the callbacks invoked so far are the
\* leading entries of the mapping as it was when the post started, one
\* invocation per entry and in the mapping's order, each handed dest = the
\* entry's name and cookie = the entry's cookie, whatever other threads have
\* subscribed or unsubscribed since; a post whose callbacks all return ends
\* only when every entry of that mapping has been invoked.
C12_SnapshotDispatch ==
  posting.active =>
    /\ posting.idx = Len(deliveries) + 1
    /\ Len(deliveries) <= Len(posting.snap)
    /\ \A i \in DOMAIN deliveries :
         /\ i <= Len(posting.snap)
         /\ deliveries[i].name = posting.snap[i].name
         /\ deliveries[i].on_event = posting.snap[i].on_event
         /\ deliveries[i].seen.dest = posting.snap[i].name
         /\ deliveries[i].seen.cookie = posting.snap[i].cookie
    /\ ENABLED PostEnd => Len(deliveries) = Len(posting.snap)

\* C12 witness: every entry of a two-entry snapshot has been invoked although
\* the mapping was changed while the post was in flight.
C12_Witness ==
  /\ posting.active
  /\ Len(posting.snap) = 2
  /\ Len(deliveries) = 2
  /\ cb_routines # posting.snap

\* The mapping without its entry at position k.
WithoutEntry(routines, k) ==
  [i \in 1..(Len(routines) - 1) |-> IF i < k THEN routines[i] ELSE routines[i + 1]]

\* C19: for every mapping the bus reaches, unsubscribe of a name that is not
\* registered returns the mapping unchanged, and unsubscribe of a registered
\* name returns the mapping without that one entry, the others in place.
C19_UnsubscribeFrame ==
  /\ \A n \in Names :
       IF n \in RoutineNames(cb_routines)
         THEN \E k \in DOMAIN cb_routines :
                /\ cb_routines[k].name = n
                /\ unsubscribe(cb_routines, n) = WithoutEntry(cb_routines, k)
         ELSE unsubscribe(cb_routines, n) = cb_routines
  /\ cb_routines = Registered(firstReg)

\* C19 witness: the subscriber the latest post delivered to first has been
\* removed, and the one registered after it is still in the mapping, alone.
C19_Witness ==
  /\ ~posting.active
  /\ Len(deliveries) = 2
  /\ Len(cb_routines) = 1
  /\ cb_routines[1].name = deliveries[2].name
  /\ cb_routines[1].name # deliveries[1].name
(***************************************************************************)
(* Further claims about the session.                                       *)
(***************************************************************************)
\* The step in which stage t ends with an exception leaves the two other
\* stages a and b, the running flag and both queues as they were.
FailsAlone(t, tNext, a, aNext, b, bNext) ==
  (t # "raised" /\ tNext = "raised") =>
    /\ aNext = a
    /\ bNext = b
    /\ UNCHANGED <<continue_thread, inQ, outQ>>

\* C13: a stage that ends with an exception (of a subscriber callback or of
\* a transport hook) ends alone, in a step that changes neither of the other
\* stages, the running flag nor the queues, and it stays ended: no later
\* open() or close() starts it again.
C13_FailureIsolation ==
  [][ /\ FailsAlone(inT, inT', distT, distT', outT, outT')
      /\ FailsAlone(distT, distT', inT, inT', outT, outT')
      /\ FailsAlone(outT, outT', inT, inT', distT, distT')
      /\ inT = "raised" => inT' = "raised"
      /\ distT = "raised" => distT' = "raised"
      /\ outT = "raised" => outT' = "raised" ]_vars

\* C13 witness: the distributor has ended in a subscriber's exception on the
\* first message while the session runs; the reader has enqueued the second
\* message and waits for more, and the writer waits on its queue.
C13_Witness ==
  /\ distT = "raised"
  /\ continue_thread
  /\ Len(posted[RX_EVENT]) = 1
  /\ Len(enqLog) = 2
  /\ inT = "recv"
  /\ outT = "get"
\* C14: the i-th text written to the stream is the i-th message m passed to
\* send: m itself when m ends with "\r\n" or "\n", and m followed by "\r\n"
\* otherwise; so every text written ends with a terminator.
C14_OutboundTerminator ==
  \A i \in DOMAIN wireOut :
    LET m == sendLog[i]
        written == decode(wireOut[i])
    IN /\ written = IF EndsWith(m, <<CR, LF>>) \/ EndsWith(m, <<LF>>) THEN m ELSE m \o EOL
       /\ EndsWith(written, <<CR, LF>>) \/ EndsWith(written, <<LF>>)

\* C15: the payload the TX bus is posted for a sent "ping", and the payload
\* a TX subscriber is handed for it, ends in "ping\r\n".
C15_TxPayloadAsTransmitted ==
  /\ \A i \in DOMAIN posted[TX_EVENT] :
       sendLog[i] = PingText => EndsWith(posted[TX_EVENT][i].payload, PingText \o EOL)
  /\ \A i \in DOMAIN received[TX_EVENT] :
       Contains(received[TX_EVENT][i].payload, PingText)
         => EndsWith(received[TX_EVENT][i].payload, PingText \o EOL)
\* C16: the message the writer had dequeued before close() was called is
\* transmitted and then posted on the TX bus, and the message the
\* distributor had dequeued before close() was called is posted on the RX
\* bus, whenever close() is called after that.
C16_NoLossOfDequeued ==
  /\ outT # "send" => wireOut = <<encode(Framed(sendLog[1]))>>
  /\ outT \notin {"send", "post"} => PayloadsOf(posted[TX_EVENT]) = <<sendLog[1]>>
  /\ distT # "post" => PayloadsOf(posted[RX_EVENT]) = enqLog
\* C20: the step of close() that pushes the sentinel for the distributor,
\* found alive, appends it to the inbound queue, and the step that pushes the
\* sentinel for the writer, found alive, appends it to the outbound queue.
C20_SentinelTargeting ==
  [][ /\ (mainPc = "close_dist" /\ mainPc' = "join_dist")
           => inQ' = Append(inQ, Sentinel) /\ outQ' = outQ
      /\ (mainPc = "close_out" /\ mainPc' = "join_out")
           => outQ' = Append(outQ, Sentinel) /\ inQ' = inQ ]_vars
(***************************************************************************)
(* Claims about start and stop, checked under SpecAnnounce.                *)
(***************************************************************************)
\* The callback invocations a step adds on a channel.
NewlyReceived(ch) == SubSeq(received'[ch], Len(received[ch]) + 1, Len(received'[ch]))

\* One invocation per entry of the mapping, in its order, with the payload.
OncePerEntry(routines, payload) ==
  [i \in DOMAIN routines |-> [dest |-> routines[i].name, payload |-> payload]]

IsStart(ch, n) ==
  posted'[ch] = Append(posted[ch], [payload |-> StartPayload(ch, n), by |-> "start"])

IsStop(ch, n) ==
  posted'[ch] = Append(posted[ch], [payload |-> StopPayload(ch, n), by |-> "stop"])

\* C17: a start(name, callback, channel) step leaves name registered on the
\* channel: appended at the end of the mapping when it was absent, the
\* mapping unchanged when it was present; and the start announcement is
\* handed, once each and in order, to every entry of the mapping as the
\* step leaves it (so to name too); if a callback raises, to the entries up
\* to that one.
C17_StartAnnounces ==
  [][ \A ch \in Channels, n \in AnnNames :
        IsStart(ch, n) =>
          /\ n \in RoutineNames(event'[ch])
          /\ n \in RoutineNames(event[ch]) => event'[ch] = event[ch]
          /\ n \notin RoutineNames(event[ch]) =>
               /\ Len(event'[ch]) = Len(event[ch]) + 1
               /\ IsPrefix(event[ch], event'[ch])
               /\ event'[ch][Len(event'[ch])].name = n
          /\ IsPrefix(received[ch], received'[ch])
          /\ IsPrefix(NewlyReceived(ch), OncePerEntry(event'[ch], StartPayload(ch, n)))
          /\ ~PostRaises(event'[ch]) =>
               NewlyReceived(ch) = OncePerEntry(event'[ch], StartPayload(ch, n)) ]_vars

\* C17 witness: start was called twice for n1 on the RX channel, where n2 was
\* registered before; n1 and n2 were each handed both announcements, and
\* nothing else was handed to anyone.
C17_Witness ==
  /\ PayloadsOf(posted[RX_EVENT]) = <<StartPayload(RX_EVENT, "n1"), StartPayload(RX_EVENT, "n1")>>
  /\ RoutineNames(event[RX_EVENT]) = {"n1", "n2"}
  /\ DeliveredTo("n1", received[RX_EVENT]) = PayloadsOf(posted[RX_EVENT])
  /\ DeliveredTo("n2", received[RX_EVENT]) = PayloadsOf(posted[RX_EVENT])

\* C18: a stop(name, channel) step hands the stop announcement, once each and
\* in order, to every entry of the channel's mapping as the step finds it (so
\* to name, when registered); when no callback raises, the step leaves the
\* mapping without name's entry and otherwise as it was; it changes nothing
\* of the other channel; and no step hands a post to a name that is
\* registered neither before nor after it.
C18_StopAnnouncesThenRemoves ==
  [][ /\ \A ch \in Channels, n \in AnnNames :
           IsStop(ch, n) =>
             /\ IsPrefix(received[ch], received'[ch])
             /\ IsPrefix(NewlyReceived(ch), OncePerEntry(event[ch], StopPayload(ch, n)))
             /\ ~PostRaises(event[ch]) =>
                  /\ NewlyReceived(ch) = OncePerEntry(event[ch], StopPayload(ch, n))
                  /\ n \notin RoutineNames(event'[ch])
                  /\ IF n \in RoutineNames(event[ch])
                       THEN \E k \in DOMAIN event[ch] :
                              /\ event[ch][k].name = n
                              /\ event'[ch] = WithoutEntry(event[ch], k)
                       ELSE event'[ch] = event[ch]
             /\ \A o \in Channels \ {ch} :
                  event'[o] = event[o] /\ posted'[o] = posted[o] /\ received'[o] = received[o]
      /\ \A ch \in Channels :
           \A i \in DOMAIN NewlyReceived(ch) :
             NewlyReceived(ch)[i].dest \in RoutineNames(event[ch]) \cup RoutineNames(event'[ch])
    ]_vars

\* C18 witness: stop("n1") has returned on the RX channel: n1 was handed the
\* stop announcement, is no longer registered, and was handed nothing of the
\* announcement posted afterwards, which n2, still registered, was handed.
C18_Witness ==
  /\ Len(posted[RX_EVENT]) = 2
  /\ posted[RX_EVENT][1] = [payload |-> StopPayload(RX_EVENT, "n1"), by |-> "stop"]
  /\ DeliveredTo("n1", received[RX_EVENT]) = <<StopPayload(RX_EVENT, "n1")>>
  /\ Len(DeliveredTo("n2", received[RX_EVENT])) = 2
  /\ RoutineNames(event[RX_EVENT]) = {"n2"}
(***************************************************************************)
(* Claims about the order of shutdown and the exits of the stages.         *)
(***************************************************************************)
CloseSentinelPcs == {"close_in", "close_out", "close_dist"}
CloseJoinPcs == {"join_in", "join_out", "join_dist"}

\* A step that appends a sentinel to one of the queues.
SentinelEnqueued == inQ' = Append(inQ, Sentinel) \/ outQ' = Append(outQ, Sentinel)

\* A step in which a stage takes a sentinel off the head of its queue.
SentinelDequeued(queue, queueNext) ==
  queue # <<>> /\ Head(queue) = Sentinel /\ queueNext = Tail(queue)

WriterDequeued == SubSeq(sendLog, 1, Len(sendLog) - Len(outQ))

\* C22: the writer terminates when it dequeues a sentinel: in a session that
\* was opened once and not closed, a writer that has dequeued a sentinel is
\* not waiting for, sending or posting a further item; and a sentinel is
\* neither posted on a bus nor handed to the transport.
C22_ExitOnSentinel ==
  /\ (nCalls = 1 /\ lastCall = "open" /\ openedOk /\ Len(outQ) <= Len(sendLog)) =>
       (Sentinel \in Range(WriterDequeued) => outT \notin {"get", "send", "post"})
  /\ \A ch \in Channels : \A i \in DOMAIN posted[ch] : posted[ch][i].payload # Sentinel
  /\ \A i \in DOMAIN wireOut : wireOut[i] # encode(Framed(Sentinel))
(***************************************************************************)
(* SpecTimeout: the shutdown of SpecShutdown under fair scheduling.  The   *)
(* distributor and the writer are daemon threads the interpreter keeps     *)
(* scheduling, and a timed get returns when an item arrives or when its    *)
(* five seconds have passed; close() itself is given no fairness (the      *)
(* caller may never call it, or never come back to it).                    *)
(***************************************************************************)
TimeoutFairness ==
  /\ WF_vars(DistLoop)
  /\ WF_vars(DistGet)
  /\ WF_vars(DistTimeout)
  /\ WF_vars(OutLoop)
  /\ WF_vars(OutGet)
  /\ WF_vars(OutTimeout)

SpecTimeout == ShutdownInit /\ [][ShutdownNext]_vars /\ TimeoutFairness

\* C23: once the running flag is false, a distributor or a writer that is
\* blocked in its timed get on an empty queue eventually terminates, whether
\* or not a sentinel is put on that queue afterwards.
C23_TimeoutExit ==
  /\ (~continue_thread /\ distT = "get" /\ inQ = <<>>) ~> (distT = "done")
  /\ (~continue_thread /\ outT = "get" /\ outQ = <<>>) ~> (outT = "done")

\* C23 witness: close() has cleared the flag and has not reached its first
\* sentinel, nothing was ever put on the inbound queue after the message the
\* distributor posted, and the distributor has ended on the empty result of
\* its timed get.
C23_Witness ==
  /\ ~continue_thread
  /\ nCalls = 2
  /\ mainPc = "close_hook"
  /\ distT = "done"
  /\ distData = EmptyResult
  /\ inQ = <<>>
  /\ Len(enqLog) = 1
(***************************************************************************)
(* SpecReader: an open session whose peer writes a stream and may shut     *)
(* down, and which is then closed.                                         *)
(***************************************************************************)
ReaderInit ==
  /\ BusInit
  /\ \E stream \in PeerStreams : OpenedWith(stream, RecvSize)

ReaderNext ==
  \/ FrameNext
  \/ ReaderRecvClosed
  \/ CloseBegin
  \/ CloseHook
  \/ CloseSentinelIn
  \/ CloseJoinIn
  \/ CloseSentinelOut
  \/ CloseJoinOut
  \/ CloseSentinelDist
  \/ CloseJoinDist
  \/ OutLoop
  \/ OutGet
  \/ OutTimeout

SpecReader == ReaderInit /\ [][ReaderNext]_vars

\* C24: the reader leaves its loop only at the loop condition, with the
\* running flag false, and does leave it then; a step of the reader never
\* takes anything off the inbound queue; a receive returns only when bytes
\* are there, the peer has shut down or the transport was closed; and an
\* empty chunk sends the reader back to the loop condition, not out of it.
C24_ReaderExit ==
  [][ /\ (inT' = "done" /\ inT # "done") => (inT = "loop" /\ ~continue_thread)
      /\ (inT = "loop" /\ inT' # inT) =>
           inT' = IF continue_thread THEN "recv" ELSE "done"
      /\ inT' # inT => IsPrefix(inQ, inQ')
      /\ (inT = "recv" /\ inT' # inT) =>
           /\ sock = "closed" \/ wire # <<>> \/ peerEOF
           /\ (sock = "open" /\ wire = <<>>) => inT' = "loop" ]_vars

\* C24 witness: the peer wrote its stream and never shut down, close() found
\* the reader alive after the hook and is joining it, and the reader, whose
\* receive on the closed transport returned, has left its loop.
C24_Witness ==
  /\ mainPc = "join_in"
  /\ sock = "closed"
  /\ ~peerEOF
  /\ wire = <<>>
  /\ Len(chunkLog) >= 2
  /\ inT = "done"
  /\ Sentinel \in Range(inQ)

\* C24 witness of the empty chunk: the peer has shut down, the reader has
\* received everything and is back in its loop with the flag true.
C24_WitnessEmptyChunk ==
  /\ continue_thread
  /\ peerEOF
  /\ wire = <<>>
  /\ inT = "loop"
  /\ Len(chunkLog) >= 2
\* C25: every TX post follows the successful send of the same message: the
\* i-th post carries the message whose framed bytes are the i-th
\* transmission, the transmissions outnumber the posts by the one message
\* the writer has sent and is about to post, and by nothing else; so a
\* message whose send raised is not posted.
C25_PostAfterSend ==
  /\ Len(wireOut) = Len(posted[TX_EVENT]) + (IF outT = "post" THEN 1 ELSE 0)
  /\ \A i \in DOMAIN posted[TX_EVENT] :
       /\ i <= Len(wireOut)
       /\ wireOut[i] = encode(Framed(posted[TX_EVENT][i].payload))
  /\ outT = "post" => wireOut[Len(wireOut)] = encode(Framed(outData))

\* C25 witness: the first message was sent and posted; the send of the
\* second raised on the closed transport (no subscriber could have raised),
\* and it was not posted.
C25_Witness ==
  /\ sendLog = <<(<<"q", LF>>), (<<"p">>)>>
  /\ event[TX_EVENT] = <<>>
  /\ outT = "raised"
  /\ outData = <<"p">>
  /\ wireOut = <<encode(<<"q", LF>>)>>
  /\ PayloadsOf(posted[TX_EVENT]) = <<(<<"q", LF>>)>>
Stages == <<inT, outT, distT>>

\* A call of open(): the step that counts a call and records it as open.
OpenCalled == nCalls' = nCalls + 1 /\ lastCall' = "open"

\* C26: each stage is started at most once.  A stage that was started never
\* goes back to not started, a stage that has ended never runs again, and an
\* open() that finds the stages already started (a second open(), or an
\* open() after close()) changes no stage and fails (with RuntimeError of
\* Thread.start, unless the transport hook failed before).
C26_StartedOnce ==
  [][ /\ \A i \in DOMAIN Stages :
           /\ Stages[i] # "new" => Stages'[i] # "new"
           /\ (~Alive(Stages[i]) /\ Stages[i] # "new") => Stages'[i] = Stages[i]
      /\ (OpenCalled /\ inT # "new") =>
           /\ Stages' = Stages
           /\ callErr' # None
      /\ (Stages' # Stages /\ Stages[1] = "new") =>
           /\ OpenCalled
           /\ Stages = <<"new", "new", "new">>
           /\ Stages' = <<"loop", "loop", "loop">> ]_vars

\* C26 witness: open(), close(), open(): the second open() failed with
\* RuntimeError and the stages, which had ended, stayed ended.
C26_Witness ==
  /\ nCalls = 3
  /\ lastCall = "open"
  /\ callErr = "RuntimeError"
  /\ continue_thread
  /\ inT = "done"
  /\ outT = "done"
  /\ distT = "done"
RECURSIVE Concat(_)
Concat(seqs) == IF seqs = <<>> THEN <<>> ELSE Head(seqs) \o Concat(Tail(seqs))

ChunksReceived == [i \in DOMAIN chunkLog |-> chunkLog[i].data]

\* C27: while the reader runs, the enqueued messages concatenated, followed
\* by the accumulator, are the decoded concatenation of the chunks received;
\* a chunk causes at most one enqueue; and the accumulator is empty when the
\* last chunk received caused an enqueue.
C27_ByteConservation ==
  /\ inT # "raised" => Concat(enqLog) \o msg = decode(Concat(ChunksReceived))
  /\ \A i \in DOMAIN chunkLog : Len(chunkLog[i].puts) <= 1
  /\ (chunkLog # <<>> /\ chunkLog[Len(chunkLog)].puts # <<>>) => msg = <<>>

\* C27 witness: two messages were enqueued, by two of at least three chunks,
\* and a further chunk has left bytes in the accumulator.
C27_Witness ==
  /\ Len(enqLog) = 2
  /\ Len(chunkLog) >= 3
  /\ msg # <<>>
  /\ wire = <<>>
  /\ inT = "loop"
\* The bytes the transport is handed for the messages of a sequence of items.
Transmissions(items) ==
  [i \in DOMAIN NonSentinel(items) |-> encode(Framed(NonSentinel(items)[i]))]

\* C28: a sentinel passed to send() is dropped and the writer goes on.  What
\* the transport was handed is, in order, a prefix of the transmissions of
\* the messages sent, sentinels left out, and the posts on TX are the
\* messages of that prefix; a writer that dequeues anything goes to the send
\* hook or back to its loop condition, never out of its loop; and from its
\* loop condition it goes on to the next get while the flag is true.
C28_SentinelDropped ==
  /\ [](/\ IsPrefix(wireOut, Transmissions(sendLog))
        /\ IsPrefix(PayloadsOf(posted[TX_EVENT]), NonSentinel(sendLog))
        /\ Len(posted[TX_EVENT]) <= Len(wireOut))
  /\ [][ /\ (outT = "get" /\ outT' # outT) =>
              outT' = IF outData' = Sentinel THEN "loop" ELSE "send"
         /\ (outT = "loop" /\ outT' # outT /\ continue_thread) => outT' = "get" ]_vars

\* C28 witness: send(None) and then send("p") on a running session: the
\* writer has dropped the sentinel, transmitted and posted "p", and is
\* waiting for the next item.
C28_Witness ==
  /\ nCalls = 1
  /\ continue_thread
  /\ sendLog = <<Sentinel, (<<"p">>)>>
  /\ outQ = <<>>
  /\ wireOut = <<encode(Framed(<<"p">>))>>
  /\ PayloadsOf(posted[TX_EVENT]) = <<(<<"p">>)>>
  /\ outT = "get"
\* The places, in the order of a post's iteration, of the callbacks that raise.
RaisingAt(snap) == {i \in DOMAIN snap : snap[i].on_event = "raise"}

\* C29: a post that ends does so either with no error, after it invoked
\* every subscriber it iterates, none of which raises, or with the error of
\* the first subscriber whose callback raises, after it invoked exactly the
\* subscribers up to that one; no step of a post changes the subscription
\* mapping; and the next post iterates the whole mapping as it then is.
C29_CallbackFailure ==
  [][ /\ (posting.active /\ ~posting'.active) =>
           LET snap == posting.snap
               raising == RaisingAt(snap)
           IN IF raising = {}
                THEN /\ busErr' = None
                     /\ Len(deliveries') = Len(snap)
                ELSE /\ busErr' = "CallbackError"
                     /\ \A i \in raising : Len(deliveries') <= i
                     /\ Len(deliveries') \in raising
                     /\ \A i \in DOMAIN deliveries' : deliveries'[i].name = snap[i].name
      /\ (posting' # posting \/ deliveries' # deliveries) => cb_routines' = cb_routines
      /\ (~posting.active /\ posting'.active) =>
           /\ posting'.snap = cb_routines
           /\ posting'.idx = 1
           /\ busErr' = None ]_vars

\* C29 witness: the second post on the bus has ended with the error of the
\* first of two subscribers, which it invoked; the second subscriber, still
\* registered, was not invoked.
C29_Witness ==
  /\ nPosts = 2
  /\ ~posting.active
  /\ busErr = "CallbackError"
  /\ Len(cb_routines) = 2
  /\ cb_routines[1].on_event = "raise"
  /\ cb_routines[2].on_event = "log"
  /\ Len(deliveries) = 1
  /\ deliveries[1].name = cb_routines[1].name
====
